---------------------------- MODULE Spec2Model ----------------------------
(***************************************************************************)
(* A model of dispatch's ARM control-flow discovery                        *)
(* (src/analysis/arm_analyzer.py, ARM_Analyzer._gen_ins_map) and of the    *)
(* rendering of instructions (src/constructs.py, Instruction.nice_op_str). *)
(*                                                                         *)
(* _gen_ins_map is one function; it is modelled at the granularity of its  *)
(* loops: one step per pop of the worklist, one step per instruction the   *)
(* decoder yields, one step per finalization range and per instruction of  *)
(* it, so that the intermediate states of the run can be inspected.        *)
(*                                                                         *)
(* The data model of src/constructs.py has three small machines of its     *)
(* own: the rendering of an Instruction (RenderSpec), the comparison of    *)
(* CFGEdges (EdgeSpec) and a Function with its BasicBlocks (FunctionSpec). *)
(***************************************************************************)
EXTENDS Integers, Sequences, FiniteSets, TLC

VARIABLES
    image,           \* the loaded binary: entry point and contents of the cells
    entry,           \* local `entry` (line 28, masked on line 35)
    initial_mode,    \* local `initial_mode` (lines 30-33)
    bb_disasm_mode,  \* dict vaddr -> mode (line 22)
    known_ends,      \* set of literal-pool addresses (line 26)
    to_analyze,      \* FIFO Queue of (vaddr, mode) (line 37)
    pc,              \* position of the run: "loop", "span", "final", "fin_span", "done", "error", "capped"
    start_vaddr,     \* local `start_vaddr` of the current iteration
    end_vaddr,       \* end of the byte range handed to the decoder
    mode,            \* local `mode` of the current iteration
    disasm_mode,     \* self._disassembler.mode
    cur,             \* address of the next instruction the decoder will yield
    jump_dst,        \* local `jump_dst`: << >> until line 70 first binds it, then << value >>
    bb_vaddrs,       \* sorted(bb_disasm_mode.keys()) (line 127)
    fin_idx,         \* index of the pair the finalization loop is at
    ins_map,         \* self.ins_map: vaddr -> Instruction
    err,             \* the exception that left _gen_ins_map, "none" if none
    functions,       \* executable.functions: vaddr -> Function
    strings,         \* executable.strings: vaddr -> String
    xrefs,           \* executable.xrefs: vaddr -> the addresses that refer to it
    instruction,     \* the Instruction being rendered: address, size, mnemonic, groups, operands, comment
    op_strings,      \* local `op_strings` of nice_op_str when it returned
    result,          \* the string the last call of nice_op_str returned
    outputs,         \* what each render so far returned, in order, and the comment it left
    rpc,             \* position of the rendering: "idle", "ready", "returned", "raised"
    edges,           \* the three values a comparison of CFGEdges is tried on
    eq_results,      \* eq_results[i][j]: what edges[i] == edges[j] returned
    ne_results,      \* ne_results[i][j]: what edges[i] != edges[j] returned
    epc,             \* position of the comparison: "idle", "ready", "compared"
    parent_func,     \* a Function: its `instructions` list
    bbs,             \* the BasicBlocks constructed on parent_func
    fpc              \* "idle" or "live": whether the Function is in use

\* the variables of the rendering
rvars == << functions, strings, xrefs, instruction, op_strings, result, outputs, rpc >>

\* the variables of the comparison of edges
evars == << edges, eq_results, ne_results, epc >>

\* the variables of the Function and its BasicBlocks
fvars == << parent_func, bbs, fpc >>

\* the variables of the data model, which _gen_ins_map never touches
cvars == << rvars, evars, fvars >>

\* the variables of _gen_ins_map
dvars == << image, entry, initial_mode, bb_disasm_mode, known_ends, to_analyze, pc,
            start_vaddr, end_vaddr, mode, disasm_mode, cur, jump_dst, bb_vaddrs,
            fin_idx, ins_map, err >>

vars == << dvars, cvars >>

-----------------------------------------------------------------------------
(* Bounds of the model *)

\* At most this many cells of an image hold something else than a filler instruction.
MaxPlaced == 2

\* The worklist is followed up to this length; a run that would exceed it is cut ("capped").
MaxQueue == 3

-----------------------------------------------------------------------------
(* Capstone's modes and the size of the instructions each decodes *)

CS_MODE_ARM == "arm"

CS_MODE_THUMB == "thumb"

Modes == {CS_MODE_ARM, CS_MODE_THUMB}

\* ARM instructions are 4 bytes, Thumb instructions 2 (the 16-bit encodings).
InsSize(m) == IF m = CS_MODE_THUMB THEN 2 ELSE 4

\* A local no statement has bound yet (mode).
Unbound == "unbound"

-----------------------------------------------------------------------------
(* The executable: sections, mapping, executability (the collaborator of §6) *)

\* Two small executable sections with an unmapped gap between them, where the
\* discovery runs, and a large one (0x4000 .. 0x6000) that holds the functions
\* the rendering names.
Sections == { [vaddr |-> 0, size |-> 8, exec |-> TRUE],
              [vaddr |-> 12, size |-> 4, exec |-> TRUE],
              [vaddr |-> 16384, size |-> 8192, exec |-> TRUE] }

NoSection == [vaddr |-> -1, size |-> 0, exec |-> FALSE]

section_containing_vaddr(a) ==
    IF \E s \in Sections : s.vaddr <= a /\ a < s.vaddr + s.size
    THEN CHOOSE s \in Sections : s.vaddr <= a /\ a < s.vaddr + s.size
    ELSE NoSection

IsMapped(a) == section_containing_vaddr(a) # NoSection

vaddr_is_executable(a) == section_containing_vaddr(a).exec

\* get_binary_vaddr_range(s, e) succeeds iff every byte of [s, e) is mapped.
RangeMapped(s, e) == \A a \in s .. (e - 1) : IsMapped(a)

address_length == 4

-----------------------------------------------------------------------------
(* The image: what the bytes of each cell decode to *)

\* Addresses an image may point to: S1 even/odd, inside S1, S2 odd.
Values == {0, 1, 4, 13}

\* PC-relative displacements of literal loads.
Disps == {-4, 0, 4}

\* Cells whose content the image chooses: the word-aligned mapped addresses.
PlaceCells == {a \in 0 .. 15 : IsMapped(a) /\ a % 4 = 0}

Filler == [kind |-> "and", val |-> 0]

Contents ==
    {Filler}
    \cup [kind : {"word", "b", "blx", "sub", "mov"}, val : Values]
    \cup [kind : {"ldr"}, val : Disps]

\* Entry points: S1 in ARM and in Thumb mode, inside S1, and an unmapped address.
Entries == {0, 1, 4, 8}

Images ==
    { [entry |-> e, cells |-> c] :
        e \in Entries,
        c \in { f \in [PlaceCells -> Contents] :
                  Cardinality({a \in PlaceCells : f[a] # Filler}) <= MaxPlaced } }

Content(a) == IF a \in PlaceCells THEN image.cells[a] ELSE Filler

\* The instruction the decoder yields at address a in mode m: the mnemonic and
\* the final operand. "b", "blx", "sub" and "mov" end in an immediate, "ldr" in
\* a PC-based memory operand, "and" in a register. A "word" cell is data:
\* capstone (skipdata) yields a pseudo-instruction with id 0.
Decode(m, a) ==
    LET c == Content(a) IN
    [ address  |-> a,
      size     |-> InsSize(m),
      id       |-> IF c.kind = "word" THEN 0 ELSE 1,
      mnemonic |-> IF c.kind = "word" THEN ".byte" ELSE c.kind,
      optype   |-> CASE c.kind \in {"b", "blx", "sub", "mov"} -> "imm"
                     [] c.kind = "ldr" -> "mem"
                     [] OTHER -> "reg",
      imm      |-> IF c.kind \in {"b", "blx", "sub", "mov"} THEN c.val ELSE 0,
      base     |-> IF c.kind = "ldr" THEN "pc" ELSE "r0",
      disp     |-> IF c.kind = "ldr" THEN c.val ELSE 0 ]

\* struct.unpack of the pointer-wide word at ptr: the value a "word" cell holds;
\* the encoding of an instruction is no executable address.
Word(ptr) == IF Content(ptr).kind = "word" THEN Content(ptr).val ELSE -1

-----------------------------------------------------------------------------
(* Helpers of the code *)

\* the mask forgotten
ClearLow_unmasked(a) == a

\* a & ~0b1
ClearLow(a) == a - (a % 2)

\* a & ~0b11
WordAlign(a) == a - (a % 4)

\* 'c' in mnemonic
Contains(mn, c) == \E i \in 1 .. Len(mn) : SubSeq(mn, i, i) = c

\* mnemonic.startswith(p)
StartsWith(mn, p) == Len(mn) >= Len(p) /\ SubSeq(mn, 1, Len(p)) = p

SetMin(S) == CHOOSE x \in S : \A y \in S : x <= y

RECURSIVE sorted(_)
sorted(S) == IF S = {} THEN << >> ELSE << SetMin(S) >> \o sorted(S \ {SetMin(S)})


-----------------------------------------------------------------------------
(* _gen_ins_map: initialization, lines 22-40; _create_disassembler, lines 11-15 *)

Start ==
    /\ entry = ClearLow(image.entry)
    /\ initial_mode = (IF image.entry % 2 = 1 THEN CS_MODE_THUMB ELSE CS_MODE_ARM)
    /\ bb_disasm_mode = [a \in {entry} |-> initial_mode]
    /\ known_ends = {}
    /\ to_analyze = << << entry, initial_mode >> >>
    /\ pc = "loop"
    \* start_vaddr, end_vaddr and the decoder's position are bound by the first
    \* pop and not read before it
    /\ start_vaddr = entry
    /\ end_vaddr = entry
    /\ mode = Unbound
    /\ disasm_mode = (IF image.entry % 2 = 1 THEN CS_MODE_THUMB ELSE CS_MODE_ARM)
    /\ cur = entry
    /\ jump_dst = << >>
    /\ bb_vaddrs = << >>
    /\ fin_idx = 0
    /\ ins_map = << >>
    /\ err = "none"

\* No instruction is being rendered.
RenderIdle ==
    /\ functions = << >>
    /\ strings = << >>
    /\ xrefs = << >>
    /\ instruction = [address |-> 0, size |-> 4, mnemonic |-> "", groups |-> {},
                      operands |-> << >>, comment |-> ""]
    /\ op_strings = << >>
    /\ result = ""
    /\ outputs = << >>
    /\ rpc = "idle"

\* No edges are being compared.
EdgeIdle ==
    /\ edges = << >>
    /\ eq_results = << >>
    /\ ne_results = << >>
    /\ epc = "idle"

\* No Function is in use.
FunctionIdle ==
    /\ parent_func = [address |-> 16384, instructions |-> << >>]
    /\ bbs = << >>
    /\ fpc = "idle"

Init ==
    /\ image \in Images
    /\ Start
    /\ RenderIdle
    /\ EdgeIdle
    /\ FunctionIdle

\* An exception leaves _gen_ins_map: nothing in it catches one.
Raise(e) == pc' = "error" /\ err' = e

-----------------------------------------------------------------------------
(* The main loop, lines 42-58: pop an entry and read its span *)

\* the discovered block starts ignored: always the end of the section
SpanEnd_section_end(s) ==
    section_containing_vaddr(s).vaddr + section_containing_vaddr(s).size

\* min([a for a in bb_disasm_mode if a > start_vaddr] or [section_end_vaddr]), line 53
SpanEnd(s) ==
    LET cur_section == section_containing_vaddr(s)
        section_end_vaddr == cur_section.vaddr + cur_section.size
        later == {a \in DOMAIN bb_disasm_mode : a > s}
    IN  IF later # {} THEN SetMin(later) ELSE section_end_vaddr

Pop ==
    /\ pc = "loop"
    /\ to_analyze # << >>
    /\ LET s == Head(to_analyze)[1]
           m == Head(to_analyze)[2]
       IN  /\ to_analyze' = Tail(to_analyze)
           /\ mode' = m
           /\ disasm_mode' = m
           /\ IF section_containing_vaddr(s) = NoSection
              THEN \* cur_section is None: cur_section.vaddr raises
                   /\ Raise("AttributeError")
                   /\ start_vaddr' = s
                   /\ UNCHANGED << end_vaddr, cur >>
              ELSE /\ start_vaddr' = ClearLow(s)
                   /\ end_vaddr' = SpanEnd(s)
                   /\ IF RangeMapped(ClearLow(s), SpanEnd(s))
                      THEN pc' = "span" /\ cur' = ClearLow(s) /\ UNCHANGED err
                      ELSE Raise("UnmappedAddress") /\ UNCHANGED cur
    /\ UNCHANGED cvars
    /\ UNCHANGED << image, entry, initial_mode, bb_disasm_mode, known_ends, jump_dst,
                    bb_vaddrs, fin_idx, ins_map >>

-----------------------------------------------------------------------------
(* The decode loop of a span, lines 60-125: one step per instruction *)

\* The decoder has a whole instruction left in the bytes it was given.
HasIns == cur + InsSize(disasm_mode) <= end_vaddr

CurIns == Decode(disasm_mode, cur)

IsData(ins) == ins.id = 0

AtKnownEnd(ins) == ins.address \in known_ends

\* 'b' in ins.mnemonic and ins.operands[-1].type == CS_OP_IMM, line 69
IsBranchImm(ins) == Contains(ins.mnemonic, "b") /\ ins.optype = "imm"

\* ins.mnemonic.startswith('ld') or ins.mnemonic.startswith('mov'), line 85
IsLoadMove(ins) == StartsWith(ins.mnemonic, "ld") \/ StartsWith(ins.mnemonic, "mov")

\* the exchange ignored: the target inherits the current mode
BranchNextMode_noflip(ins, m) == m

\* lines 74-77
BranchNextMode(ins, m) ==
    IF Contains(ins.mnemonic, "x")
    THEN (IF m = CS_MODE_THUMB THEN CS_MODE_ARM ELSE CS_MODE_THUMB)
    ELSE m

\* lines 93 and 122
LowBitMode(a) == IF a % 2 = 1 THEN CS_MODE_THUMB ELSE CS_MODE_ARM

\* line 109
LiteralPtr(ins) == WordAlign(ins.address + 4 + ins.disp)

\* bb_disasm_mode[a] = m ; to_analyze.put((a, m)).  A run whose worklist would
\* outgrow MaxQueue is cut.
Record(a, m) ==
    IF Len(to_analyze) >= MaxQueue
    THEN /\ pc' = "capped"
         /\ UNCHANGED << bb_disasm_mode, to_analyze, cur >>
    ELSE /\ bb_disasm_mode' = [x \in DOMAIN bb_disasm_mode \cup {a} |->
                                  IF x = a THEN m ELSE bb_disasm_mode[x]]
         /\ to_analyze' = Append(to_analyze, << a, m >>)
         /\ cur' = cur + CurIns.size
         /\ UNCHANGED pc

NoRecord ==
    /\ cur' = cur + CurIns.size
    /\ UNCHANGED << bb_disasm_mode, to_analyze, pc >>

\* The generator is exhausted: back to the while test.
SpanDone ==
    /\ pc = "span"
    /\ ~HasIns
    /\ pc' = "loop"
    /\ UNCHANGED cvars
    /\ UNCHANGED << image, entry, initial_mode, bb_disasm_mode, known_ends, to_analyze,
                    start_vaddr, end_vaddr, mode, disasm_mode, cur, jump_dst, bb_vaddrs,
                    fin_idx, ins_map, err >>

\* lines 61-64: break on a data byte or at a known end
Break ==
    /\ pc = "span"
    /\ HasIns
    /\ IsData(CurIns) \/ AtKnownEnd(CurIns)
    /\ pc' = "loop"
    /\ UNCHANGED cvars
    /\ UNCHANGED << image, entry, initial_mode, bb_disasm_mode, known_ends, to_analyze,
                    start_vaddr, end_vaddr, mode, disasm_mode, cur, jump_dst, bb_vaddrs,
                    fin_idx, ins_map, err >>

\* lines 69-82
BranchImm ==
    /\ pc = "span"
    /\ HasIns
    /\ ~IsData(CurIns) /\ ~AtKnownEnd(CurIns)
    /\ IsBranchImm(CurIns)
    /\ jump_dst' = << CurIns.imm >>
    /\ IF vaddr_is_executable(CurIns.imm) /\ CurIns.imm \notin DOMAIN bb_disasm_mode
       THEN Record(ClearLow(CurIns.imm), BranchNextMode(CurIns, mode))
       ELSE NoRecord
    /\ UNCHANGED cvars
    /\ UNCHANGED << image, entry, initial_mode, known_ends, start_vaddr, end_vaddr, mode,
                    disasm_mode, bb_vaddrs, fin_idx, ins_map, err >>

\* lines 85-96: load/move of an immediate that is an executable address
LoadImm ==
    /\ pc = "span"
    /\ HasIns
    /\ ~IsData(CurIns) /\ ~AtKnownEnd(CurIns)
    /\ ~IsBranchImm(CurIns)
    /\ IsLoadMove(CurIns)
    /\ CurIns.optype = "imm" /\ vaddr_is_executable(CurIns.imm)
    /\ IF CurIns.imm \in DOMAIN bb_disasm_mode
       THEN NoRecord /\ UNCHANGED err
       ELSE IF jump_dst = << >>
            THEN \* line 91 formats jump_dst, which no branch has bound yet
                 /\ Raise("UnboundLocalError")
                 /\ UNCHANGED << bb_disasm_mode, to_analyze, cur >>
            ELSE Record(ClearLow(CurIns.imm), LowBitMode(CurIns.imm)) /\ UNCHANGED err
    /\ UNCHANGED cvars
    /\ UNCHANGED << image, entry, initial_mode, known_ends, start_vaddr, end_vaddr, mode,
                    disasm_mode, jump_dst, bb_vaddrs, fin_idx, ins_map >>

\* the literal-pool read wrapped in a try/except that goes on to the next instruction
LoadLiteral_swallow ==
    /\ pc = "span"
    /\ HasIns
    /\ ~IsData(CurIns) /\ ~AtKnownEnd(CurIns)
    /\ ~IsBranchImm(CurIns)
    /\ IsLoadMove(CurIns)
    /\ ~(CurIns.optype = "imm" /\ vaddr_is_executable(CurIns.imm))
    /\ CurIns.optype = "mem" /\ CurIns.base = "pc"
    /\ LET ptr == LiteralPtr(CurIns)
           referenced_addr == Word(ptr)
       IN  /\ known_ends' = known_ends \cup {ptr}
           /\ IF RangeMapped(ptr, ptr + address_length)
                 /\ vaddr_is_executable(referenced_addr)
                 /\ referenced_addr \notin DOMAIN bb_disasm_mode
              THEN Record(ClearLow(referenced_addr), LowBitMode(referenced_addr))
              ELSE NoRecord
    /\ UNCHANGED cvars
    /\ UNCHANGED << image, entry, initial_mode, start_vaddr, end_vaddr, mode,
                    disasm_mode, jump_dst, bb_vaddrs, fin_idx, ins_map, err >>

\* lines 99-125: load/move through the literal pool
LoadLiteral ==
    /\ pc = "span"
    /\ HasIns
    /\ ~IsData(CurIns) /\ ~AtKnownEnd(CurIns)
    /\ ~IsBranchImm(CurIns)
    /\ IsLoadMove(CurIns)
    /\ ~(CurIns.optype = "imm" /\ vaddr_is_executable(CurIns.imm))
    /\ CurIns.optype = "mem" /\ CurIns.base = "pc"
    /\ LET ptr == LiteralPtr(CurIns)
           referenced_addr == Word(ptr)
       IN  /\ known_ends' = known_ends \cup {ptr}
           /\ IF ~RangeMapped(ptr, ptr + address_length)
              THEN /\ Raise("UnmappedAddress")
                   /\ UNCHANGED << bb_disasm_mode, to_analyze, cur >>
              ELSE /\ UNCHANGED err
                   /\ IF vaddr_is_executable(referenced_addr)
                         /\ referenced_addr \notin DOMAIN bb_disasm_mode
                      THEN Record(ClearLow(referenced_addr), LowBitMode(referenced_addr))
                      ELSE NoRecord
    /\ UNCHANGED cvars
    /\ UNCHANGED << image, entry, initial_mode, start_vaddr, end_vaddr, mode,
                    disasm_mode, jump_dst, bb_vaddrs, fin_idx, ins_map >>

\* any other instruction: nothing is discovered
OtherIns ==
    /\ pc = "span"
    /\ HasIns
    /\ ~IsData(CurIns) /\ ~AtKnownEnd(CurIns)
    /\ ~IsBranchImm(CurIns)
    /\ ~(IsLoadMove(CurIns) /\ CurIns.optype = "imm" /\ vaddr_is_executable(CurIns.imm))
    /\ ~(IsLoadMove(CurIns) /\ CurIns.optype = "mem" /\ CurIns.base = "pc")
    /\ NoRecord
    /\ UNCHANGED cvars
    /\ UNCHANGED << image, entry, initial_mode, known_ends, start_vaddr, end_vaddr, mode,
                    disasm_mode, jump_dst, bb_vaddrs, fin_idx, ins_map, err >>

-----------------------------------------------------------------------------
(* Finalization, lines 127-136 *)

\* the worklist is empty: bb_vaddrs = sorted(bb_disasm_mode.keys()), line 127
LoopExit ==
    /\ pc = "loop"
    /\ to_analyze = << >>
    /\ bb_vaddrs' = sorted(DOMAIN bb_disasm_mode)
    /\ fin_idx' = 1
    /\ pc' = "final"
    /\ UNCHANGED cvars
    /\ UNCHANGED << image, entry, initial_mode, bb_disasm_mode, known_ends, to_analyze,
                    start_vaddr, end_vaddr, mode, disasm_mode, cur, jump_dst, ins_map, err >>

\* self._disassembler.mode = bb_disasm_mode[bb_start], line 132
FinalMode(bb_start) == bb_disasm_mode[bb_start]

\* lines 129-132: the next pair (bb_start, bb_end) of zip(bb_vaddrs[:-1], bb_vaddrs[1:])
FinalNext ==
    /\ pc = "final"
    /\ IF fin_idx >= Len(bb_vaddrs)
       THEN /\ pc' = "done"
            /\ UNCHANGED << end_vaddr, disasm_mode, cur, err >>
       ELSE LET bb_start == bb_vaddrs[fin_idx]
                bb_end == bb_vaddrs[fin_idx + 1]
            IN  /\ end_vaddr' = bb_end
                /\ cur' = bb_start
                /\ IF RangeMapped(bb_start, bb_end)
                   THEN /\ disasm_mode' = FinalMode(bb_start)
                        /\ pc' = "fin_span"
                        /\ UNCHANGED err
                   ELSE /\ Raise("UnmappedAddress")
                        /\ UNCHANGED disasm_mode
    /\ UNCHANGED cvars
    /\ UNCHANGED << image, entry, initial_mode, bb_disasm_mode, known_ends, to_analyze,
                    start_vaddr, mode, jump_dst, bb_vaddrs, fin_idx, ins_map >>

\* Instruction(ins, self.executable), line 136: Instruction.__init__
\* (constructs.py line 69) takes eight arguments after self; called with two it
\* raises TypeError before anything is stored.
InstructionCallOk == FALSE

\* lines 134-136: one instruction of the range
FinalIns ==
    /\ pc = "fin_span"
    /\ HasIns
    /\ IF CurIns.id # 0
       THEN IF InstructionCallOk
            THEN /\ ins_map' = [a \in DOMAIN ins_map \cup {CurIns.address} |->
                                  IF a = CurIns.address THEN CurIns ELSE ins_map[a]]
                 /\ cur' = cur + CurIns.size
                 /\ UNCHANGED << pc, err >>
            ELSE /\ Raise("TypeError")
                 /\ UNCHANGED << ins_map, cur >>
       ELSE /\ cur' = cur + CurIns.size
            /\ UNCHANGED << ins_map, pc, err >>
    /\ UNCHANGED cvars
    /\ UNCHANGED << image, entry, initial_mode, bb_disasm_mode, known_ends, to_analyze,
                    start_vaddr, end_vaddr, mode, disasm_mode, jump_dst, bb_vaddrs, fin_idx >>

\* the range is exhausted: on to the next pair
FinalSpanDone ==
    /\ pc = "fin_span"
    /\ ~HasIns
    /\ pc' = "final"
    /\ fin_idx' = fin_idx + 1
    /\ UNCHANGED cvars
    /\ UNCHANGED << image, entry, initial_mode, bb_disasm_mode, known_ends, to_analyze,
                    start_vaddr, end_vaddr, mode, disasm_mode, cur, jump_dst, bb_vaddrs,
                    ins_map, err >>

-----------------------------------------------------------------------------

Next ==
    \/ Pop
    \/ SpanDone
    \/ Break
    \/ BranchImm
    \/ LoadImm
    \/ LoadLiteral
    \/ OtherIns
    \/ LoopExit
    \/ FinalNext
    \/ FinalIns
    \/ FinalSpanDone

Spec == Init /\ [][Next]_vars

\* The interpreter runs _gen_ins_map on: a step that can be taken is taken.
FairSpec == Spec /\ WF_vars(Next)

-----------------------------------------------------------------------------
(* Rendering: Instruction.__str__ and nice_op_str, Operand.__str__,        *)
(* constructs.py lines 84-196                                              *)

\* An instruction is rendered at most this many times.
MaxRenders == 2

GRP_CALL == 0

GRP_JUMP == 1

IMM == 0

REG == 2

MEM == 3

\* Python's None: what kwargs.get('base') and kwargs.get('index') give for a
\* keyword that was not passed (lines 148-149); it is no register id
None == -1

\* IP_REGS[ARCHITECTURE.ARM], line 209: capstone's ARM_REG_PC
IP_REGS == {11}

HexDigit(d) == SubSeq("0123456789abcdef", d + 1, d + 1)

RECURSIVE HexDigits(_)
HexDigits(n) == IF n < 16 THEN HexDigit(n) ELSE HexDigits(n \div 16) \o HexDigit(n % 16)

\* Python's hex() of an int
hex(n) == IF n < 0 THEN "-0x" \o HexDigits(0 - n) ELSE "0x" \o HexDigits(n)

\* Python's str() of an int that is not negative
RECURSIVE DecDigits(_)
DecDigits(n) == IF n < 10 THEN HexDigit(n) ELSE DecDigits(n \div 10) \o HexDigit(n % 10)

RECURSIVE RemoveSpaces(_)
RemoveSpaces(str) ==
    IF Len(str) = 0 THEN ""
    ELSE (IF SubSeq(str, 1, 1) = " " THEN "" ELSE SubSeq(str, 1, 1))
         \o RemoveSpaces(SubSeq(str, 2, Len(str)))

\* String.__init__, line 248: string.replace(' ', '')[:8]
short_name(str) ==
    LET t == RemoveSpaces(str) IN IF Len(t) <= 8 THEN t ELSE SubSeq(t, 1, 8)

String(str, vaddr) == [string |-> str, short_name |-> short_name(str), vaddr |-> vaddr]

Function(address, name) == [address |-> address, name |-> name]

\* REGISTER_NAMES[ARCHITECTURE.ARM], lines 199-204: capstone's ARM_REG_R0 (66),
\* ARM_REG_PC (11) and ARM_REG_LR (10)
RegisterName(reg) == CASE reg = 66 -> "r0" [] reg = 11 -> "pc" [] OTHER -> "lr"

\* Python's truth value of a register id or None
Truthy(x) == x # None /\ x # 0

\* Operand._get_simplified, lines 155-161
get_simplified(op, ins) ==
    IF op.type = MEM /\ op.base \in IP_REGS /\ op.index = 0
    THEN [type |-> MEM, base |-> None, index |-> None, scale |-> 1,
          disp |-> ins.address + ins.size + op.index * op.scale + op.disp]
    ELSE op

\* Operand.__str__, lines 173-196, of the simplified memory operand
MemStr(simplified) ==
    LET base == IF Truthy(simplified.base) THEN RegisterName(simplified.base) ELSE ""
        index == IF Truthy(simplified.index)
                 THEN (IF Truthy(simplified.base) THEN " + " ELSE "")
                      \o RegisterName(simplified.index)
                      \o (IF simplified.scale > 1
                          THEN "*" \o DecDigits(simplified.scale) ELSE "")
                 ELSE ""
        disp == IF simplified.disp # 0
                THEN (IF Truthy(simplified.base) \/ Truthy(simplified.index)
                      THEN " + " ELSE "")
                     \o hex(simplified.disp)
                ELSE ""
    IN  "[" \o base \o index \o disp \o "]"

\* Operand.__str__, lines 163-196, of an immediate, a register or a memory operand
OperandStr(op, ins) ==
    CASE op.type = IMM -> hex(op.imm)
      [] op.type = REG -> RegisterName(op.reg)
      [] OTHER -> MemStr(get_simplified(op, ins))

\* is_call, is_jump, lines 94-98
is_call(ins) == GRP_CALL \in ins.groups

is_jump(ins) == GRP_JUMP \in ins.groups

SetMax(S) == CHOOSE x \in S : \A y \in S : y <= x

\* the greatest function address, whatever the target
func_addr_greatest(target) == SetMax(DOMAIN functions)

\* lines 115-120: func_addrs sorted descending; the loop leaves func_addr at the
\* first address below the target, or, when it never breaks, at the last
\* address of the list, the smallest.
func_addr_after_loop(target) ==
    LET below == {f \in DOMAIN functions : f < target}
    IN  IF below # {} THEN SetMax(below) ELSE SetMin(DOMAIN functions)

\* ', '.join(op_strings), line 130
RECURSIVE Join(_)
Join(strs) ==
    IF Len(strs) = 0 THEN ""
    ELSE IF Len(strs) = 1 THEN strs[1]
    ELSE strs[1] \o ", " \o Join(Tail(strs))

\* line 106
PlainOpStrings(ins) ==
    [i \in 1 .. Len(ins.operands) |-> OperandStr(ins.operands[i], ins)]

\* lines 109-122: the final operand of a call or jump, named
NamedOpStrings(ins) ==
    LET n == Len(ins.operands)
        target == ins.operands[n].imm
    IN  IF target \in DOMAIN functions
        THEN [PlainOpStrings(ins) EXCEPT ![n] = functions[target].name]
        ELSE IF vaddr_is_executable(target) /\ DOMAIN functions # {}
        THEN [PlainOpStrings(ins) EXCEPT ![n] =
                 functions[func_addr_after_loop(target)].name \o "+"
                     \o hex(target - func_addr_after_loop(target))]
        ELSE PlainOpStrings(ins)

\* the operands lines 124-128 resolve to a string
StringOperands(ins) ==
    {i \in 1 .. Len(ins.operands) :
        ins.operands[i].type = IMM /\ ins.operands[i].imm \in DOMAIN strings}

\* lines 124-128: immediates that are the address of a known string
StringOpStrings(ins) ==
    [i \in 1 .. Len(ins.operands) |->
        IF i \in StringOperands(ins)
        THEN strings[ins.operands[i].imm].short_name
        ELSE OperandStr(ins.operands[i], ins)]

\* line 112 reads operand.imm of the final operand of a call or jump: an
\* operand that is no immediate has no such attribute (AttributeError)
NiceRaises(ins) ==
    /\ is_call(ins) \/ is_jump(ins)
    /\ ins.operands[Len(ins.operands)].type # IMM

\* the list line 130 joins
NiceOpStrings(ins) ==
    IF is_call(ins) \/ is_jump(ins) THEN NamedOpStrings(ins) ELSE StringOpStrings(ins)

\* self.comment when nice_op_str returns: line 128 has stored the text of the
\* string the last resolving operand refers to, if any operand resolves
CommentAfter(ins) ==
    IF is_call(ins) \/ is_jump(ins) \/ StringOperands(ins) = {}
    THEN ins.comment
    ELSE strings[ins.operands[SetMax(StringOperands(ins))].imm].string

\* Instruction.nice_op_str, lines 100-130
nice_op_str ==
    /\ rpc \in {"ready", "returned"}
    /\ Len(outputs) < MaxRenders
    /\ IF NiceRaises(instruction)
       THEN /\ rpc' = "raised"
            /\ UNCHANGED << op_strings, result, instruction, outputs >>
       ELSE /\ op_strings' = NiceOpStrings(instruction)
            /\ result' = Join(NiceOpStrings(instruction))
            /\ rpc' = "returned"
            /\ instruction' = [instruction EXCEPT !.comment = CommentAfter(instruction)]
            /\ outputs' = Append(outputs, [call |-> "nice_op_str",
                                           out |-> Join(NiceOpStrings(instruction)),
                                           comment |-> CommentAfter(instruction)])
    /\ UNCHANGED << functions, strings, xrefs >>
    /\ UNCHANGED << dvars, evars, fvars >>

\* the comment line 86 reads, before line 85 has called nice_op_str
StrComment_stale(ins) == ins.comment

\* the comment line 86 reads: line 85 has called nice_op_str by then
StrComment(ins) == CommentAfter(ins)

\* hex(a)[:-1], line 89
HexCut(a) == SubSeq(hex(a), 1, Len(hex(a)) - 1)

\* lines 88-89
XrefSuffix(ins) ==
    IF ins.address \in DOMAIN xrefs
    THEN "; XREF=" \o Join([i \in 1 .. Len(xrefs[ins.address]) |->
                               HexCut(xrefs[ins.address][i])])
    ELSE ""

\* the string lines 85-92 build
StrOf(ins) ==
    ins.mnemonic \o " " \o Join(NiceOpStrings(ins))
    \o (IF StrComment(ins) # "" THEN "; \"" \o StrComment(ins) \o "\"" ELSE "")
    \o XrefSuffix(ins)

\* Instruction.__str__, lines 84-92, the call of nice_op_str included
Instruction_str ==
    /\ rpc \in {"ready", "returned"}
    /\ Len(outputs) < MaxRenders
    /\ IF NiceRaises(instruction)
       THEN /\ rpc' = "raised"
            /\ UNCHANGED << op_strings, result, instruction, outputs >>
       ELSE /\ op_strings' = NiceOpStrings(instruction)
            /\ result' = Join(NiceOpStrings(instruction))
            /\ rpc' = "returned"
            /\ instruction' = [instruction EXCEPT !.comment = CommentAfter(instruction)]
            /\ outputs' = Append(outputs, [call |-> "str",
                                           out |-> StrOf(instruction),
                                           comment |-> CommentAfter(instruction)])
    /\ UNCHANGED << functions, strings, xrefs >>
    /\ UNCHANGED << dvars, evars, fvars >>

\* The function tables, string tables and instructions the rendering is tried on:
\* functions foo, baz, bar at 0x4000, 0x4800, 0x5000 (any subset); targets below,
\* at, between and above them, one of them (0x3000) not executable.
FunctionTables ==
    { [a \in S |-> Function(a, CASE a = 16384 -> "foo" [] a = 18432 -> "baz" [] OTHER -> "bar")] :
        S \in SUBSET {16384, 18432, 20480} }

StringTables ==
    { [a \in S |-> String(IF a = 16464 THEN "hello world" ELSE "bye", a)] :
        S \in {{}, {16464, 20484}} }

\* no cross-reference, or two to the instruction at 0x3000
XrefTables == { << >>, [a \in {12288} |-> << 16384, 16400 >>] }

Targets == {12288, 16368, 16384, 16464, 18432, 20480, 20484}

\* Memory operands: base pc or r0; index not passed, 0 (capstone: no index
\* register) or r0; displacements 0x100, 0 and -4.
MemOperands ==
    { [type |-> MEM, base |-> b, index |-> i, scale |-> s, disp |-> d] :
        b \in {11, 66}, i \in {None, 0, 66}, s \in {1, 4}, d \in {256, 0, -4} }

OperandLists ==
    { << [type |-> IMM, imm |-> t] >> : t \in Targets }
    \cup { << [type |-> REG, reg |-> 66], [type |-> IMM, imm |-> t] >> : t \in Targets }
    \cup { << [type |-> REG, reg |-> 10] >> }
    \cup { << [type |-> IMM, imm |-> 16464], [type |-> IMM, imm |-> 20484] >> }
    \cup { << [type |-> REG, reg |-> 66], m >> :
              m \in {x \in MemOperands : x.scale = 1 \/ x.index = 66} }

\* The instructions rendered: at 0x3000 with size 4 (ARM) or at 0x3004 with
\* size 2 (Thumb); a call is a bl, a jump a b, anything else an ldr.
Instructions ==
    { [address |-> a, size |-> IF a = 12288 THEN 4 ELSE 2,
       mnemonic |-> CASE g = {GRP_CALL} -> "bl" [] g = {GRP_JUMP} -> "b" [] OTHER -> "ldr",
       groups |-> g, operands |-> o, comment |-> ""] :
        a \in {12288, 12292}, g \in {{}, {GRP_CALL}, {GRP_JUMP}}, o \in OperandLists }

BlankImage == [entry |-> 0, cells |-> [a \in PlaceCells |-> Filler]]

RenderInit ==
    /\ image = BlankImage
    /\ Start
    /\ EdgeIdle
    /\ FunctionIdle
    /\ functions \in FunctionTables
    /\ strings \in StringTables
    /\ xrefs \in XrefTables
    /\ instruction \in Instructions
    /\ op_strings = << >>
    /\ result = ""
    /\ outputs = << >>
    /\ rpc = "ready"

RenderNext ==
    \/ nice_op_str
    \/ Instruction_str

RenderSpec == RenderInit /\ [][RenderNext]_vars

-----------------------------------------------------------------------------
(* CFGEdge, constructs.py lines 258-283 *)

DEFAULT == 0

COND_JUMP == 1

SWITCH == 2

\* CFGEdge(src, dst, type, value=None), lines 268-272
CFGEdge(src, dst, type, value) ==
    [class |-> "CFGEdge", src |-> src, dst |-> dst, type |-> type, value |-> value]

\* The edges compared: from 1 or 2 to 3, of any type, a SWITCH edge with a
\* discriminant value, the others without.
CFGEdges ==
    { CFGEdge(src, 3, type, None) : src \in {1, 2}, type \in {DEFAULT, COND_JUMP, SWITCH} }
    \cup { CFGEdge(src, 3, SWITCH, value) : src \in {1, 2}, value \in {0, 1} }

\* An object of another class that has the attributes of an edge.
OtherObjects == { [class |-> "Other", src |-> 1, dst |-> 3, type |-> DEFAULT, value |-> None] }

\* isinstance(other, CFGEdge), line 275
isinstance_CFGEdge(other) == other.class = "CFGEdge"

\* the discriminant value compared as well
CFGEdge_eq_with_value(self, other) ==
    /\ isinstance_CFGEdge(other)
    /\ self.src = other.src /\ self.dst = other.dst /\ self.type = other.type
    /\ self.value = other.value

\* CFGEdge.__eq__, lines 274-277
CFGEdge_eq(self, other) ==
    /\ isinstance_CFGEdge(other)
    /\ self.src = other.src /\ self.dst = other.dst /\ self.type = other.type

\* CFGEdge.__ne__, lines 279-280
CFGEdge_ne(self, other) == ~CFGEdge_eq(self, other)

\* The positions of `edges` that hold a CFGEdge: the values whose __eq__ and
\* __ne__ are CFGEdge's.
EdgePositions == {i \in 1 .. Len(edges) : isinstance_CFGEdge(edges[i])}

\* edges[i] == edges[j] and edges[i] != edges[j] for every CFGEdge edges[i]
Compare ==
    /\ epc = "ready"
    /\ eq_results' = [i \in EdgePositions |->
                         [j \in 1 .. Len(edges) |-> CFGEdge_eq(edges[i], edges[j])]]
    /\ ne_results' = [i \in EdgePositions |->
                         [j \in 1 .. Len(edges) |-> CFGEdge_ne(edges[i], edges[j])]]
    /\ epc' = "compared"
    /\ UNCHANGED edges
    /\ UNCHANGED << dvars, rvars, fvars >>

EdgeInit ==
    /\ image = BlankImage
    /\ Start
    /\ RenderIdle
    /\ FunctionIdle
    /\ edges \in [1 .. 3 -> CFGEdges \cup OtherObjects]
    /\ eq_results = << >>
    /\ ne_results = << >>
    /\ epc = "ready"

EdgeNext == Compare

EdgeSpec == EdgeInit /\ [][EdgeNext]_vars

-----------------------------------------------------------------------------
(* Function and BasicBlock, constructs.py lines 6-56 *)

\* A Function holds at most this many instructions.
MaxInstructions == 3

\* At most this many BasicBlocks are constructed on the Function.
MaxBlocks == 2

\* The Function, at 0x4000, holds instructions at these addresses.
InsAddrs == {16384, 16388, 16392}

\* Two instructions that may stand at an address: the original and its replacement.
InsVersions == {"mov", "nop"}

\* [i for i in self.parent.instructions if self.address <= i.address < self.address + self.size],
\* line 56
InRange(instructions, address, size) ==
    LET within(i) == address <= i.address /\ i.address < address + size
    IN  SelectSeq(instructions, within)

\* BasicBlock.__init__, lines 51-56
BasicBlock(parent, address, size) ==
    [address |-> address, size |-> size,
     offset |-> parent.address - address,
     instructions |-> InRange(parent.instructions, address, size)]

\* parent_func.instructions.append(ins): the next instruction, in address order
AppendInstruction ==
    /\ fpc = "live"
    /\ Len(parent_func.instructions) < MaxInstructions
    /\ \E a \in InsAddrs, v \in InsVersions :
          /\ \A i \in 1 .. Len(parent_func.instructions) : parent_func.instructions[i].address < a
          /\ parent_func' = [parent_func EXCEPT
                                !.instructions = Append(@, [address |-> a, mnemonic |-> v])]
    /\ UNCHANGED << bbs, fpc >>
    /\ UNCHANGED << dvars, rvars, evars >>

\* parent_func.instructions[k] = ins: another instruction at the same address
ReplaceInstruction ==
    /\ fpc = "live"
    /\ \E k \in 1 .. Len(parent_func.instructions), v \in InsVersions :
          /\ v # parent_func.instructions[k].mnemonic
          /\ parent_func' = [parent_func EXCEPT !.instructions[k].mnemonic = v]
    /\ UNCHANGED << bbs, fpc >>
    /\ UNCHANGED << dvars, rvars, evars >>

\* del parent_func.instructions[k]
RemoveInstruction ==
    /\ fpc = "live"
    /\ \E k \in 1 .. Len(parent_func.instructions) :
          parent_func' = [parent_func EXCEPT
                            !.instructions = SubSeq(@, 1, k - 1) \o SubSeq(@, k + 1, Len(@))]
    /\ UNCHANGED << bbs, fpc >>
    /\ UNCHANGED << dvars, rvars, evars >>

\* parent_func.bbs.append(BasicBlock(parent_func, address, size))
NewBasicBlock ==
    /\ fpc = "live"
    /\ Len(bbs) < MaxBlocks
    /\ \E address \in InsAddrs, size \in {4, 8} :
          bbs' = Append(bbs, BasicBlock(parent_func, address, size))
    /\ UNCHANGED << parent_func, fpc >>
    /\ UNCHANGED << dvars, rvars, evars >>

FunctionInit ==
    /\ image = BlankImage
    /\ Start
    /\ RenderIdle
    /\ EdgeIdle
    /\ parent_func = [address |-> 16384, instructions |-> << >>]
    /\ bbs = << >>
    /\ fpc = "live"

FunctionNext ==
    \/ AppendInstruction
    \/ ReplaceInstruction
    \/ RemoveInstruction
    \/ NewBasicBlock

FunctionSpec == FunctionInit /\ [][FunctionNext]_vars

-----------------------------------------------------------------------------
(* Properties of the discovery run *)

\* The instruction under the decoder passes both breaks and is looked at by
\* the discovery branches of lines 69-125.
Processed == pc = "span" /\ HasIns /\ ~IsData(CurIns) /\ ~AtKnownEnd(CurIns)

\* The instruction the decoder yielded just before the one it is at.
PrevIns == Decode(disasm_mode, cur - InsSize(disasm_mode))

\* C1: the main loop terminates: every run leaves the while loop of lines
\* 42-125 (its worklist empty, an exception raised, or the run cut at MaxQueue).
C1_MainLoopTerminates == <>(pc \notin {"loop", "span"})

\* C2: first-discoverer wins: a key of bb_disasm_mode stays a key and keeps the
\* mode it was recorded with.
C2_FirstDiscovererWins ==
    [][\A a \in DOMAIN bb_disasm_mode :
           a \in DOMAIN bb_disasm_mode' /\ bb_disasm_mode'[a] = bb_disasm_mode[a]]_vars

\* C3: mode consistency: while a span starting at a is decoded, in the
\* discovery loop or in the finalization pass, the decoder's mode is the mode
\* bb_disasm_mode records for a.
C3_ModeConsistency ==
    /\ pc = "span" => disasm_mode = bb_disasm_mode[start_vaddr]
    /\ pc = "fin_span" => disasm_mode = bb_disasm_mode[bb_vaddrs[fin_idx]]

\* C4: literal-pool termination: a literal target is a known end from the step
\* that computes it on, and discovery processes no instruction that lies after
\* a known end of its own span, nor does the final map hold one.
C4_LiteralPoolTermination ==
    [][ /\ known_ends \subseteq known_ends'
        /\ ( /\ Processed
             /\ ~IsBranchImm(CurIns)
             /\ IsLoadMove(CurIns)
             /\ ~(CurIns.optype = "imm" /\ vaddr_is_executable(CurIns.imm))
             /\ CurIns.optype = "mem" /\ CurIns.base = "pc" )
           => LiteralPtr(CurIns) \in known_ends'
        /\ Processed
           => ~\E k \in known_ends : start_vaddr <= k /\ k < CurIns.address
        /\ \A a \in DOMAIN ins_map' :
              ~\E k \in known_ends' :
                  \E i \in 1 .. Len(bb_vaddrs') - 1 :
                      bb_vaddrs'[i] <= k /\ k <= a /\ a < bb_vaddrs'[i + 1]
      ]_vars

\* C5: low-bit masking: every key of bb_disasm_mode, every address in the
\* worklist and every key of the final map is even; the seed is the entry point
\* with its low bit cleared, in Thumb mode iff that bit was set.
C5_LowBitMasking ==
    /\ \A a \in DOMAIN bb_disasm_mode : a % 2 = 0
    /\ \A i \in 1 .. Len(to_analyze) : to_analyze[i][1] % 2 = 0
    /\ \A a \in DOMAIN ins_map : a % 2 = 0
    /\ entry = image.entry - (image.entry % 2)
    /\ initial_mode = CS_MODE_THUMB <=> image.entry % 2 = 1
    /\ mode = Unbound =>
          /\ to_analyze = << << entry, initial_mode >> >>
          /\ bb_disasm_mode = [a \in {entry} |-> initial_mode]

\* C5 witness: a branch target with its low bit set has just been recorded and
\* enqueued, masked, in a run whose entry point has its low bit set.
C5_Witness ==
    /\ pc = "span"
    /\ image.entry % 2 = 1
    /\ cur > start_vaddr
    /\ IsBranchImm(PrevIns)
    /\ PrevIns.imm % 2 = 1
    /\ to_analyze # << >>
    /\ to_analyze[Len(to_analyze)][1] = PrevIns.imm - 1
    /\ (PrevIns.imm - 1) \in DOMAIN bb_disasm_mode

\* An immediate branch with exchange to an executable even address that is no
\* key of bb_disasm_mode yet is about to be processed.
ExchangeToNewEven ==
    /\ Processed
    /\ IsBranchImm(CurIns)
    /\ Contains(CurIns.mnemonic, "x")
    /\ CurIns.imm % 2 = 0
    /\ vaddr_is_executable(CurIns.imm)
    /\ CurIns.imm \notin DOMAIN bb_disasm_mode

\* C6 as stated: the target of such a branch is recorded in ARM mode, whatever
\* the mode of the block that holds the branch.
C6_ExchangeTargetIsArm ==
    [][(ExchangeToNewEven /\ pc' # "capped")
          => /\ CurIns.imm \in DOMAIN bb_disasm_mode'
             /\ bb_disasm_mode'[CurIns.imm] = CS_MODE_ARM]_vars

\* C6 amended: the target is recorded in the mode opposite to the one the
\* branch's span is decoded in: ARM from a Thumb span, Thumb from an ARM span.
C6_ExchangeTargetIsFlipped ==
    [][(ExchangeToNewEven /\ pc' # "capped")
          => /\ CurIns.imm \in DOMAIN bb_disasm_mode'
             /\ mode = CS_MODE_THUMB => bb_disasm_mode'[CurIns.imm] = CS_MODE_ARM
             /\ mode = CS_MODE_ARM => bb_disasm_mode'[CurIns.imm] = CS_MODE_THUMB
             /\ to_analyze' = Append(to_analyze, << CurIns.imm, bb_disasm_mode'[CurIns.imm] >>)]_vars

\* C6 witness: a branch with exchange in an ARM span has just recorded its new
\* even target, in Thumb mode.
C6_Witness ==
    /\ pc = "span"
    /\ mode = CS_MODE_ARM
    /\ cur > start_vaddr
    /\ IsBranchImm(PrevIns) /\ Contains(PrevIns.mnemonic, "x")
    /\ PrevIns.imm % 2 = 0
    /\ to_analyze # << >>
    /\ to_analyze[Len(to_analyze)] = << PrevIns.imm, CS_MODE_THUMB >>
    /\ bb_disasm_mode[PrevIns.imm] = CS_MODE_THUMB

\* The step about to be taken looks up a section, reads a span, dereferences a
\* literal or reads a finalization range at addresses that are not all mapped.
PopUnmapped ==
    /\ pc = "loop"
    /\ to_analyze # << >>
    /\ \/ ~IsMapped(Head(to_analyze)[1])
       \/ ~RangeMapped(Head(to_analyze)[1] - (Head(to_analyze)[1] % 2),
                       SpanEnd(Head(to_analyze)[1]))

LiteralUnmapped ==
    /\ Processed
    /\ ~IsBranchImm(CurIns)
    /\ IsLoadMove(CurIns)
    /\ ~(CurIns.optype = "imm" /\ vaddr_is_executable(CurIns.imm))
    /\ CurIns.optype = "mem" /\ CurIns.base = "pc"
    /\ \E a \in LiteralPtr(CurIns) .. LiteralPtr(CurIns) + 3 : ~IsMapped(a)

FinalUnmapped ==
    /\ pc = "final"
    /\ fin_idx < Len(bb_vaddrs)
    /\ \E a \in bb_vaddrs[fin_idx] .. bb_vaddrs[fin_idx + 1] - 1 : ~IsMapped(a)

\* C7: unmapped-address propagation: a step that touches an unmapped range
\* ends the run with the failure, and a run that has failed takes no further
\* step (no next instruction, worklist entry or block).
C7_UnmappedPropagates ==
    [][ /\ pc # "error"
        /\ (PopUnmapped \/ LiteralUnmapped \/ FinalUnmapped)
              => /\ pc' = "error"
                 /\ err' \in {"UnmappedAddress", "AttributeError"}
                 /\ bb_disasm_mode' = bb_disasm_mode
                 /\ ins_map' = ins_map
      ]_vars

\* C7 witness: a literal-pool dereference has hit an unmapped address and the
\* run has stopped at the load, before finalization.
C7_Witness ==
    /\ pc = "error"
    /\ err = "UnmappedAddress"
    /\ bb_vaddrs = << >>
    /\ LiteralPtr(CurIns) \in known_ends
    /\ ~RangeMapped(LiteralPtr(CurIns), LiteralPtr(CurIns) + 4)
    /\ IsLoadMove(CurIns) /\ CurIns.optype = "mem"

-----------------------------------------------------------------------------
(* Properties of the rendering *)

\* A call or jump whose final operand is an immediate has been rendered.
RenderedBranch ==
    /\ rpc = "returned"
    /\ is_call(instruction) \/ is_jump(instruction)

LastOperand == instruction.operands[Len(instruction.operands)]

LastOpString == op_strings[Len(op_strings)]

\* C9: name resolution: a target that is a function's address renders as the
\* function's name; otherwise an executable target with a function below it
\* renders as name+offset of the function with the greatest address <= target;
\* with foo at 0x4000 and bar at 0x5000, target 0x4050 renders foo+0x50.
C9_NameResolution ==
    RenderedBranch =>
        LET target == LastOperand.imm
            atOrBelow == {f \in DOMAIN functions : f <= target}
        IN  /\ target \in DOMAIN functions => LastOpString = functions[target].name
            /\ ( /\ target \notin DOMAIN functions
                 /\ vaddr_is_executable(target)
                 /\ \E f \in DOMAIN functions : f < target )
               => \E f \in atOrBelow :
                     /\ \A g \in atOrBelow : g <= f
                     /\ LastOpString = functions[f].name \o "+" \o hex(target - f)
            /\ (DOMAIN functions = {16384, 20480} /\ target = 16464)
               => LastOpString = "foo+0x50"
            /\ result = Join(op_strings)

\* C9 witness: with foo at 0x4000 and bar at 0x5000 a call to 0x4050 has been
\* rendered as foo+0x50.
C9_Witness ==
    /\ RenderedBranch
    /\ is_call(instruction)
    /\ DOMAIN functions = {16384, 20480}
    /\ LastOperand.imm = 16464
    /\ Len(instruction.operands) = 1
    /\ result = "foo+0x50"

\* C10: name-resolution fallback: an executable target with no function at or
\* below it renders as its raw numeric address, and the rendering does not fail.
C10_RawAddressFallback ==
    ( /\ rpc \in {"returned", "raised"}
      /\ is_call(instruction) \/ is_jump(instruction)
      /\ LastOperand.type = IMM
      /\ vaddr_is_executable(LastOperand.imm)
      /\ ~\E f \in DOMAIN functions : f <= LastOperand.imm )
    => /\ rpc = "returned"
       /\ LastOpString = hex(LastOperand.imm)

\* The memory operands of the instruction that has been rendered.
MemOperandsAt == {i \in 1 .. Len(instruction.operands) : instruction.operands[i].type = MEM}

\* The renders so far that were made by the call c.
RendersBy(c) == {i \in 1 .. Len(outputs) : outputs[i].call = c}

\* C11: idempotent rendering: every str() of the instruction returns the same
\* string and every nice_op_str() the same string, the one str() shows after
\* the mnemonic; the comment is the same after every render; the groups are
\* never changed by a render.
C11_IdempotentRendering ==
    /\ [](\A i, j \in 1 .. Len(outputs) :
             /\ outputs[i].call = outputs[j].call => outputs[i].out = outputs[j].out
             /\ outputs[i].comment = outputs[j].comment
             /\ (i \in RendersBy("nice_op_str") /\ j \in RendersBy("str"))
                => /\ Len(outputs[j].out) >= Len(instruction.mnemonic) + 1 + Len(outputs[i].out)
                   /\ SubSeq(outputs[j].out, 1,
                             Len(instruction.mnemonic) + 1 + Len(outputs[i].out))
                        = instruction.mnemonic \o " " \o outputs[i].out)
    /\ [](outputs # << >> => instruction.comment = outputs[1].comment)
    /\ [][instruction'.groups = instruction.groups]_vars

\* C11 witness: an instruction whose operand resolves to a string has been
\* rendered by str() twice; the first render set the comment.
C11_Witness ==
    /\ Len(outputs) = 2
    /\ RendersBy("str") = {1, 2}
    /\ outputs[1].comment = "hello world"
    /\ outputs[2].out = "ldr r0, hellowor; \"hello world\""

\* C12: IP-relative simplification is presentation-only: a memory operand whose
\* base is an instruction-pointer register and that has no index (None or 0)
\* renders as the absolute address address + size + disp, without a base; any
\* other memory operand renders from its stored fields; a render leaves the
\* stored operands as they were.
C12_IpRelativeSimplification ==
    /\ [](rpc = "returned" =>
            \A i \in MemOperandsAt :
                LET op == instruction.operands[i] IN
                IF op.base \in IP_REGS /\ op.index \in {None, 0}
                THEN op_strings[i]
                       = "[" \o hex(instruction.address + instruction.size + op.disp) \o "]"
                ELSE op_strings[i] = MemStr(op))
    /\ [][instruction'.operands = instruction.operands]_vars

\* C13: the absolute target rendered for a memory operand based on the
\* instruction pointer, with no index, is the literal address of the discovery
\* (line 109): address + 4 + disp with its low two bits cleared; at 0x3000,
\* size 4, disp 0x100 it is 0x3000 + 4 + 0x100 + 4, word-aligned.
C13_RenderedTargetIsLiteralAddress ==
    rpc = "returned" =>
        \A i \in MemOperandsAt :
            LET op == instruction.operands[i] IN
            (op.base \in IP_REGS /\ op.index = 0)
            => /\ op_strings[i]
                    = "[" \o hex(WordAlign(instruction.address + 4 + op.disp)) \o "]"
               /\ (instruction.address = 12288 /\ instruction.size = 4 /\ op.disp = 256)
                  => op_strings[i] = "[" \o hex(WordAlign(12288 + 4 + 256 + 4)) \o "]"

-----------------------------------------------------------------------------
(* Properties of the data model *)

\* Two values have the same source, destination and type.
SameSrcDstType(a, b) == a.src = b.src /\ a.dst = b.dst /\ a.type = b.type

\* C14: CFGEdge equality is decided by (src, dst, type) only: an edge equals a
\* value iff the value is a CFGEdge with the same src, dst and type, whatever
\* the value fields; the relation is reflexive, symmetric and transitive on
\* edges; != is the negation of ==; an edge never equals a non-CFGEdge.
C14_EdgeEquality ==
    epc = "compared" =>
        /\ DOMAIN eq_results = EdgePositions
        /\ \A i \in EdgePositions : \A j \in 1 .. Len(edges) :
              /\ eq_results[i][j]
                    <=> (isinstance_CFGEdge(edges[j]) /\ SameSrcDstType(edges[i], edges[j]))
              /\ ne_results[i][j] <=> ~eq_results[i][j]
              /\ ~isinstance_CFGEdge(edges[j]) => ~eq_results[i][j]
        /\ \A i \in EdgePositions : eq_results[i][i]
        /\ \A i, j \in EdgePositions : eq_results[i][j] => eq_results[j][i]
        /\ \A i, j, k \in EdgePositions :
              (eq_results[i][j] /\ eq_results[j][k]) => eq_results[i][k]

\* C14 witness: two SWITCH edges with the same source and destination and
\* different discriminant values have compared equal, and a CFGEdge has been
\* compared with an object of another class that has the same attributes.
C14_Witness ==
    /\ epc = "compared"
    /\ edges[1].type = SWITCH /\ edges[2].type = SWITCH
    /\ isinstance_CFGEdge(edges[1]) /\ isinstance_CFGEdge(edges[2])
    /\ SameSrcDstType(edges[1], edges[2])
    /\ edges[1].value # edges[2].value
    /\ eq_results[1][2] /\ ~ne_results[1][2]
    /\ ~isinstance_CFGEdge(edges[3])

\* C15: each BasicBlock's instruction list is the sub-sequence of its parent
\* Function's current instructions whose address lies in the block's range,
\* whatever was appended, replaced or removed, before or after the block was
\* constructed.
C15_BlockIsSliceOfParent ==
    \A b \in 1 .. Len(bbs) :
        bbs[b].instructions = InRange(parent_func.instructions, bbs[b].address, bbs[b].size)

-----------------------------------------------------------------------------
(* Further properties of the discovery run *)

\* The worklist entry the next pop takes lies in a section.
PopMapped == pc = "loop" /\ to_analyze # << >> /\ IsMapped(Head(to_analyze)[1])

\* The end of the section that holds a.
SectionEnd(a) == section_containing_vaddr(a).vaddr + section_containing_vaddr(a).size

\* C16: span bound: a pop of (start, mode) fixes the span [start, bound), bound
\* the smallest key of bb_disasm_mode above start at the pop, or the end of
\* start's section when there is none; the bound does not move while the span
\* is decoded, and a block start discovered inside the span does not end it.
C16_SpanBound ==
    [][ /\ PopMapped
           => LET s == Head(to_analyze)[1]
                  above == {a \in DOMAIN bb_disasm_mode : a > s}
              IN  /\ start_vaddr' = s
                  /\ disasm_mode' = Head(to_analyze)[2]
                  /\ above # {} => /\ end_vaddr' \in above
                                   /\ \A a \in above : end_vaddr' <= a
                  /\ above = {} => end_vaddr' = SectionEnd(s)
                  /\ pc' = "span" => cur' = s
        /\ pc = "span"
           => /\ start_vaddr' = start_vaddr
              /\ end_vaddr' = end_vaddr
        /\ Processed
           => /\ pc' # "loop"
              /\ pc' = "span" => cur' = cur + CurIns.size
      ]_vars

\* C16 witness: a block start was discovered inside the span being decoded and
\* the decoder has gone past it, up to the bound fixed at the pop.
C16_Witness ==
    /\ pc = "span"
    /\ \E a \in DOMAIN bb_disasm_mode :
          /\ start_vaddr < a /\ a < cur
          /\ \E i \in 1 .. Len(to_analyze) : to_analyze[i][1] = a
    /\ cur = end_vaddr
    /\ end_vaddr = SectionEnd(start_vaddr)

\* C17: load/move-immediate discovery: a load/move whose final operand is an
\* immediate that is an executable address and no key of bb_disasm_mode records
\* the address, low bit cleared, in the mode its low bit gives, enqueues it and
\* goes on to the next instruction, whatever was processed before.
C17_LoadImmDiscovery ==
    [][ ( /\ Processed
          /\ ~IsBranchImm(CurIns)
          /\ IsLoadMove(CurIns)
          /\ CurIns.optype = "imm"
          /\ vaddr_is_executable(CurIns.imm)
          /\ CurIns.imm \notin DOMAIN bb_disasm_mode
          /\ pc' # "capped" )
        => /\ (CurIns.imm - (CurIns.imm % 2)) \in DOMAIN bb_disasm_mode'
           /\ bb_disasm_mode'[CurIns.imm - (CurIns.imm % 2)]
                 = (IF CurIns.imm % 2 = 1 THEN CS_MODE_THUMB ELSE CS_MODE_ARM)
           /\ to_analyze' = Append(to_analyze,
                                   << CurIns.imm - (CurIns.imm % 2),
                                      IF CurIns.imm % 2 = 1 THEN CS_MODE_THUMB ELSE CS_MODE_ARM >>)
           /\ pc' = "span"
           /\ cur' = cur + CurIns.size
      ]_vars

\* The instructions the decoder yields from [bb_start, bb_end) in mode m.
DecodedIn(bb_start, bb_end, m) ==
    {a \in bb_start .. (bb_end - 1) :
        (a - bb_start) % InsSize(m) = 0 /\ a + InsSize(m) <= bb_end}

\* C18: finalization coverage: the pass does not fail on an instruction, and
\* when it is done every valid instruction of every range between consecutive
\* block starts, decoded in the mode of the range's start, is in the final map
\* under its address; the map holds nothing at or after the largest block start.
C18_FinalizationCoverage ==
    /\ err # "TypeError"
    /\ pc = "done" =>
          \A i \in 1 .. Len(bb_vaddrs) - 1 :
              \A a \in DecodedIn(bb_vaddrs[i], bb_vaddrs[i + 1], bb_disasm_mode[bb_vaddrs[i]]) :
                  Decode(bb_disasm_mode[bb_vaddrs[i]], a).id # 0
                  => /\ a \in DOMAIN ins_map
                     /\ ins_map[a] = Decode(bb_disasm_mode[bb_vaddrs[i]], a)
    /\ \A a \in DOMAIN ins_map : a < bb_vaddrs[Len(bb_vaddrs)]

\* The mnemonics of the image that denote a branch, and those that denote a
\* branch with instruction-set exchange.
BranchMnemonics == {"b", "blx"}

ExchangeMnemonics == {"blx"}

\* C19: only branches discover through the immediate-branch rule: an
\* instruction whose final operand is an immediate executable (even) address
\* and whose mnemonic is neither a branch nor a load/move adds no key to
\* bb_disasm_mode and no entry to the worklist; a target is recorded in the
\* mode opposite to the span's only by a mnemonic that denotes an exchange.
C19_OnlyBranchesDiscover ==
    [][ /\ ( /\ Processed
              /\ CurIns.optype = "imm"
              /\ vaddr_is_executable(CurIns.imm)
              /\ CurIns.imm % 2 = 0
              /\ CurIns.mnemonic \notin BranchMnemonics
              /\ ~IsLoadMove(CurIns) )
           => /\ bb_disasm_mode' = bb_disasm_mode
              /\ to_analyze' = to_analyze
        /\ ( /\ Processed
              /\ IsBranchImm(CurIns)
              /\ Len(to_analyze') > Len(to_analyze)
              /\ to_analyze'[Len(to_analyze')][2] # mode )
           => CurIns.mnemonic \in ExchangeMnemonics
      ]_vars

\* C20: every range read lies inside one section: the span read at a pop does
\* not extend past the end of the section of its start, nor does a range of
\* the finalization pass extend past the end of the section of its bb_start.
C20_RangesWithinSection ==
    [][ /\ PopMapped => end_vaddr' <= SectionEnd(Head(to_analyze)[1])
        /\ ( /\ pc = "final"
              /\ fin_idx < Len(bb_vaddrs)
              /\ IsMapped(bb_vaddrs[fin_idx]) )
           => end_vaddr' <= SectionEnd(bb_vaddrs[fin_idx])
      ]_vars

=============================================================================
